---- MODULE Spec2Model ----
(***************************************************************************)
(* A model of StdMeter (src/src/meter.rs): a meter holding a clock, a      *)
(* birth timestamp, an atomic last-tick timestamp `prev`, an atomic event  *)
(* count and three EWMAs, used by any number of threads without a lock.    *)
(*                                                                         *)
(* Every atomic operation of the code is one step of the model: a clock    *)
(* read, a load, a compare-and-swap, a fetch_add, one EWMA call.  A call   *)
(* of a Meter method is a sequence of such steps of one thread, and steps  *)
(* of different threads interleave freely.                                 *)
(*                                                                         *)
(* f64 values are modelled in fixed point: a rate r is the integer         *)
(* r * Scale, so 0.1840 is 1840.  A division by zero yields an infinity,   *)
(* as it does for f64.  The EWMA lives in ewma.rs, which is not among the  *)
(* sources; it is modelled from its specified contract.                    *)
(***************************************************************************)
EXTENDS Integers, Sequences, FiniteSets, TLC

\* ------------------------------------------------------------------ bounds

\* The system clock is followed for this many seconds after the meter's birth.
MaxElapsed == 11

\* The number of Meter calls made in a concurrent run.
MaxCalls == 2

\* A single-threaded run follows the system clock for this many seconds.
MaxSeqElapsed == 17

\* The number of Meter calls made in a single-threaded run.
MaxSeqCalls == 3

\* The system clock is followed for this many seconds after the meter's birth
\* in the runs that call export_metric: one catch-up comes due.
MaxExportElapsed == 6

\* The number of rate getter calls made under a clock that may go back.
MaxJumpCalls == 2

\* The threads sharing the meter.
Threads == {1, 2}

\* The readings a clock that may go back jumps between, relative to the
\* meter's birth: before it, at it, and one and two catch-ups after it.
JumpOffsets == {-6, 0, 6, 12}

\* The amounts by which the system clock advances at once: up to the tick
\* interval exactly, and past it by one second.
ClockSteps == {5, 6}

\* The same in a single-threaded run, where the clock also advances second by
\* second and so takes every value.
SeqClockSteps == {1, 5, 6}

\* The values passed to mark (an i64: negative values are accepted).
MarkValues == {-1, 2}

\* The values a test passes to mark.
TestValues == {-1, 1, 2}

\* The readings of the system clock at which a meter is constructed.
BirthStamps == {3}

\* ------------------------------------------------------------- fixed point

\* One unit of a modelled f64 is 1 / Scale.
Scale == 10^4

\* The decay constants are given in units of 1 / AlphaScale.
AlphaScale == 10^5

\* A finite f64.
Finite(x) == [cls |-> "finite", val |-> x]

\* count as f64 / elapsed as f64: an infinity when elapsed is zero (count is
\* not zero where the code divides).
F64Div(c, e) ==
    IF e = 0
    THEN [cls |-> IF c > 0 THEN "+inf" ELSE IF c < 0 THEN "-inf" ELSE "nan", val |-> 0]
    ELSE Finite((c * Scale) \div e)

\* --------------------------------------------------------------------- EWMA

\* The tick interval of an EWMA, in seconds.
EwmaInterval == 5

\* 1 - exp(-5 / (60 * minutes)) for the 1, 5 and 15 minute windows.
Alpha(k) == CASE k = 1 -> 7996 [] k = 2 -> 1653 [] k = 3 -> 554

\* EWMA::m01rate(), m05rate(), m15rate(): nothing counted, no rate yet.
EWMA_new == [uncounted |-> 0, rate |-> 0, init |-> FALSE]

\* EWMA::update(n): n more uncounted events.
EWMA_update(e, n) == [e EXCEPT !.uncounted = @ + n]

\* EWMA::tick(): fold the uncounted events into the rate.
EWMA_tick(e, k) ==
    LET instant == (e.uncounted * Scale) \div EwmaInterval
    IN  [uncounted |-> 0,
         rate |-> IF e.init
                  THEN e.rate + (Alpha(k) * (instant - e.rate)) \div AlphaScale
                  ELSE instant,
         init |-> TRUE]

\* EWMA::rate().
EWMA_rate(e) == e.rate

\* -------------------------------------------------------------------- state

VARIABLES
    clock,       \* the Clock: its kind, its current reading, the reads made of it
    birthstamp,  \* StdMeter.birthstamp
    prev,        \* StdMeter.prev, the last-tick timestamp
    count,       \* StdMeter.count
    rates,       \* StdMeter.rates, the three EWMAs
    th,          \* per thread: its place in its call (pc) and the call's locals
    ret,         \* the method that returned last, and what it returned
    nticks,      \* history: tick() calls made on each EWMA
    updated,     \* history: sum of the values passed to update() on each EWMA
    ncalls,      \* history: calls made
    nmarks,      \* history: calls of mark made
    marked,      \* history: sum of the values of the mark calls made
    expected,    \* history: calls made that are to read the clock
    wins,        \* history: the successful compare-and-swaps, in order
    round,       \* history: the state when the clock last advanced, and since
    script       \* the calls a test makes, in order

meter == <<birthstamp, prev, count, rates>>
history == <<nticks, updated, ncalls, nmarks, marked, expected, wins>>
vars == <<clock, meter, th, ret, history, round, script>>

Idx == 1..3
Ops == {"mark", "count", "mean_rate", "m01rate", "m05rate", "m15rate"}
Getters == {"m01rate", "m05rate", "m15rate"}

\* The tick interval of the meter, in seconds.
TickInterval == 5

\* A thread that is in no call.  In a call: op is the method, value the argument
\* of mark, now and old the locals of tick_maybe, seen the local `count` of
\* mean_rate, tick_i the iterations of tick_maybe's outer loop completed, rate_j
\* the EWMA an inner loop is at, cas how the compare-and-swap ended; steps
\* counts the steps the call has made and ncas its compare-and-swaps.
Idle == [pc |-> "idle", op |-> "none", value |-> 0, now |-> 0, old |-> 0,
         seen |-> 0, tick_i |-> 0, rate_j |-> 1, cas |-> "none",
         steps |-> 0, ncas |-> 0]

AllIdle == \A t \in Threads : th[t].pc = "idle"

NoRet == [op |-> "none", cls |-> "finite", val |-> 0]

\* What a method returning nothing returns.
Unit(o) == [op |-> o, cls |-> "finite", val |-> 0]

\* ------------------------------------------------------------------- clocks

\* test::non_zero's MockClock::now, given the reads made before this one.
MockClock_now(counter) == IF counter \in {0, 1} THEN 0 ELSE 10

\* Clock::now of the meter's clock.
Clock_now(c) == IF c.kind = "mock" THEN MockClock_now(c.counter) ELSE c.time

\* The clock after a read of it.
Clock_read(c) == [c EXCEPT !.counter = @ + 1]

\* -------------------------------------------------------------- construction

\* StdMeter::with(clock): one clock read, which is both birthstamp and prev.
With(c) ==
    /\ clock = Clock_read(c)
    /\ birthstamp = Clock_now(c)
    /\ prev = Clock_now(c)
    /\ count = 0
    /\ rates = [k \in Idx |-> EWMA_new]
    /\ th = [t \in Threads |-> Idle]
    /\ ret = NoRet
    /\ nticks = [k \in Idx |-> 0]
    /\ updated = [k \in Idx |-> 0]
    /\ ncalls = 0
    /\ nmarks = 0
    /\ marked = 0
    /\ expected = 0
    /\ wins = <<>>
    /\ round = [p |-> Clock_now(c), quiet |-> TRUE, ticks0 |-> [k \in Idx |-> 0],
                served |-> FALSE, lost |-> 0]

\* StdMeter::new(): a meter on the system clock.
Init ==
    /\ \E b \in BirthStamps : With([kind |-> "system", time |-> b, counter |-> 0])
    /\ script = <<>>

\* --------------------------------------------------------------- the calls

\* mark with its statements in another order: the fetch_add, the updates, and
\* tick_maybe last.
FlowTickLast(o, p) ==
    CASE o = "mark" ->
           (CASE p = "call" -> "add" [] p = "add" -> "update"
              [] p = "update" -> "now" [] p = "tick_maybe" -> "idle")
      [] o \in Getters ->
           (CASE p = "call" -> "now" [] p = "tick_maybe" -> "rate"
              [] p = "rate" -> "idle")
      [] o = "count" -> (CASE p = "call" -> "count" [] p = "count" -> "idle")
      [] o = "mean_rate" ->
           (CASE p = "call" -> "mr_load" [] p = "mr_load" -> "mr_now"
              [] p = "mr_now" -> "idle")

\* Rate getters that read the rate first and run tick_maybe afterwards.
FlowRateFirst(o, p) ==
    CASE o = "mark" ->
           (CASE p = "call" -> "now" [] p = "tick_maybe" -> "add"
              [] p = "add" -> "update" [] p = "update" -> "idle")
      [] o \in Getters ->
           (CASE p = "call" -> "rate" [] p = "rate" -> "now"
              [] p = "tick_maybe" -> "idle")
      [] o = "count" -> (CASE p = "call" -> "count" [] p = "count" -> "idle")
      [] o = "mean_rate" ->
           (CASE p = "call" -> "mr_load" [] p = "mr_load" -> "mr_now"
              [] p = "mr_now" -> "idle")

\* The order of a method's steps: the step that follows phase p of method o.
\* mark: tick_maybe, then the fetch_add, then the updates.  A rate getter:
\* tick_maybe, then the read of its EWMA.
Flow(o, p) ==
    CASE o = "mark" ->
           (CASE p = "call" -> "now" [] p = "tick_maybe" -> "add"
              [] p = "add" -> "update" [] p = "update" -> "idle")
      [] o \in Getters ->
           (CASE p = "call" -> "now" [] p = "tick_maybe" -> "rate"
              [] p = "rate" -> "idle")
      [] o = "count" -> (CASE p = "call" -> "count" [] p = "count" -> "idle")
      [] o = "mean_rate" ->
           (CASE p = "call" -> "mr_load" [] p = "mr_load" -> "mr_now"
              [] p = "mr_now" -> "idle")

\* Thread t, its locals now l, moves to step p of its call; the call is over
\* when p is "idle", and it then returns r.
Goto(t, l, p, r) ==
    /\ th' = [th EXCEPT ![t] = IF p = "idle" THEN Idle
                               ELSE [l EXCEPT !.pc = p, !.steps = @ + 1]]
    /\ ret' = IF p = "idle" THEN r ELSE ret
    /\ round' = [round EXCEPT
                   !.served = @ \/ (p = "idle" /\ r.op \in Getters),
                   !.lost = IF l.cas = "lost" /\ th[t].cas # "lost" THEN @ + 1 ELSE @]

\* Thread t calls method o (with argument v, for mark).
Invoke(t, o, v) ==
    /\ th[t].pc = "idle"
    /\ th' = [th EXCEPT ![t] = [Idle EXCEPT !.pc = Flow(o, "call"), !.op = o,
                                            !.value = v]]
    /\ ncalls' = ncalls + 1
    /\ nmarks' = IF o = "mark" THEN nmarks + 1 ELSE nmarks
    /\ marked' = IF o = "mark" THEN marked + v ELSE marked
    /\ expected' = IF o = "mark" \/ o \in Getters THEN expected + 1 ELSE expected
    /\ UNCHANGED <<clock, meter, ret, nticks, updated, wins, round>>

\* Any thread may call any method of the Meter trait at any time.  (Threads
\* that are in no call are alike: the one of the least number makes the call.)
Call(t) ==
    /\ script = <<>>
    /\ ncalls < MaxCalls
    /\ \A u \in Threads : u < t => th[u].pc # "idle"
    /\ \E o \in Ops : \E v \in (IF o = "mark" THEN MarkValues ELSE {0}) :
          Invoke(t, o, v)
    /\ UNCHANGED script

\* The system clock advances, by one of `steps` and to `max` seconds after the
\* meter's birth at most; it never goes back.  `round` notes prev and the ticks
\* made at that moment, whether any call was under way (quiet: none), and from
\* then on whether a rate getter has returned (served) and the compare-and-swaps
\* that failed (lost).
Advance(steps, max) ==
    /\ clock.kind = "system"
    /\ \E d \in steps :
          /\ clock.time + d <= birthstamp + max
          /\ clock' = [clock EXCEPT !.time = @ + d]
    /\ round' = [p |-> prev, quiet |-> AllIdle, ticks0 |-> nticks, served |-> FALSE,
                 lost |-> 0]
    /\ UNCHANGED <<meter, th, ret, history, script>>

ClockAdvance == Advance(ClockSteps, MaxElapsed)

\* --------------------------------------------------------------- tick_maybe

\* let now = self.clock.now();
TmNow(t) ==
    /\ th[t].pc = "now"
    /\ clock' = Clock_read(clock)
    /\ Goto(t, [th[t] EXCEPT !.now = Clock_now(clock)], "load", Unit(th[t].op))
    /\ UNCHANGED <<meter, history, script>>

\* A catch-up that already comes due when a whole interval has elapsed.
OwedAtInterval(elapsed) == elapsed >= TickInterval

\* A catch-up that comes due whenever the clock is more than an interval away
\* from prev, in either direction.
OwedEitherWay(elapsed) == elapsed > TickInterval \/ elapsed < -TickInterval

\* if elapsed > 5
Owed(elapsed) == elapsed > TickInterval

\* let old = self.prev.load(); let elapsed = now - old; if elapsed > 5 { .. }
TmLoad(t) ==
    /\ th[t].pc = "load"
    /\ IF Owed(th[t].now - prev)
       THEN Goto(t, [th[t] EXCEPT !.old = prev], "cas", Unit(th[t].op))
       ELSE Goto(t, [th[t] EXCEPT !.old = prev, !.cas = "skipped"],
                 Flow(th[t].op, "tick_maybe"), Unit(th[t].op))
    /\ UNCHANGED <<clock, meter, history, script>>

\* A plain store in place of the compare-and-swap.
SwapUnconditionally(cell, current, new) == [cell |-> new, prior |-> current]

\* A compare-and-swap whose caller takes any outcome for a success.
CompareAndSwapUnchecked(cell, current, new) ==
    [cell |-> IF cell = current THEN new ELSE cell, prior |-> current]

\* AtomicI64::swap(new) in place of the compare-and-swap: the store is made
\* whatever the cell held, and the value it held is returned.
SwapAlways(cell, current, new) == [cell |-> new, prior |-> cell]

\* AtomicI64::compare_and_swap(current, new): the cell afterwards and the value
\* it held before, which the caller compares with `current`.
CompareAndSwap(cell, current, new) ==
    [cell |-> IF cell = current THEN new ELSE cell, prior |-> cell]

\* prev advanced to `now`, the remainder of the interval forgotten.
NewPrevNow(n, elapsed) == n

\* prev set back by the whole elapsed time, which is the value it replaces.
NewPrevElapsed(n, elapsed) == n - elapsed

\* now - elapsed % 5
NewPrev(n, elapsed) == n - (elapsed % TickInterval)

\* One tick for a catch-up, however many intervals were missed.
TicksOnce(elapsed) == 1

\* The intervals elapsed rounded up, a started interval counted as a whole one.
TicksRoundedUp(elapsed) == (elapsed + TickInterval - 1) \div TickInterval

\* let ticks = elapsed / 5;
Ticks(elapsed) == elapsed \div TickInterval

\* A caller that spins: after a failed compare-and-swap it reads the clock and
\* prev again and retries.
TmCasRetry(t) ==
    /\ th[t].pc = "cas"
    /\ LET elapsed == th[t].now - th[t].old
           r == CompareAndSwap(prev, th[t].old, NewPrev(th[t].now, elapsed))
       IN  /\ prev' = r.cell
           /\ IF r.prior = th[t].old
              THEN /\ Goto(t, [th[t] EXCEPT !.cas = "won", !.ncas = @ + 1],
                           IF 0 < Ticks(elapsed) THEN "tick"
                           ELSE Flow(th[t].op, "tick_maybe"), Unit(th[t].op))
                   /\ wins' = Append(wins, [old |-> th[t].old, new |-> r.cell])
              ELSE /\ Goto(t, [th[t] EXCEPT !.cas = "lost", !.ncas = @ + 1],
                           "now", Unit(th[t].op))
                   /\ wins' = wins
    /\ UNCHANGED <<clock, birthstamp, count, rates, nticks, updated, ncalls, nmarks,
                   marked, expected, script>>

\* if self.prev.compare_and_swap(old, now - elapsed % 5) == old { .. }
TmCas(t) ==
    /\ th[t].pc = "cas"
    /\ LET elapsed == th[t].now - th[t].old
           r == CompareAndSwap(prev, th[t].old, NewPrev(th[t].now, elapsed))
       IN  /\ prev' = r.cell
           /\ IF r.prior = th[t].old
              THEN /\ Goto(t, [th[t] EXCEPT !.cas = "won", !.ncas = @ + 1],
                           IF 0 < Ticks(elapsed) THEN "tick"
                           ELSE Flow(th[t].op, "tick_maybe"), Unit(th[t].op))
                   /\ wins' = Append(wins, [old |-> th[t].old, new |-> r.cell])
              ELSE /\ Goto(t, [th[t] EXCEPT !.cas = "lost", !.ncas = @ + 1],
                           Flow(th[t].op, "tick_maybe"), Unit(th[t].op))
                   /\ wins' = wins
    /\ UNCHANGED <<clock, birthstamp, count, rates, nticks, updated, ncalls, nmarks,
                   marked, expected, script>>

\* for _ in 0..ticks { for rate in &self.rates { rate.tick(); } }: one tick()
TmTick(t) ==
    /\ th[t].pc = "tick"
    /\ rates' = [rates EXCEPT ![th[t].rate_j] = EWMA_tick(@, th[t].rate_j)]
    /\ nticks' = [nticks EXCEPT ![th[t].rate_j] = @ + 1]
    /\ IF th[t].rate_j < 3
       THEN Goto(t, [th[t] EXCEPT !.rate_j = @ + 1], "tick", Unit(th[t].op))
       ELSE Goto(t, [th[t] EXCEPT !.rate_j = 1, !.tick_i = @ + 1],
                 IF th[t].tick_i + 1 < Ticks(th[t].now - th[t].old)
                 THEN "tick" ELSE Flow(th[t].op, "tick_maybe"),
                 Unit(th[t].op))
    /\ UNCHANGED <<clock, birthstamp, prev, count, updated, ncalls, nmarks, marked,
                   expected, wins, script>>

\* -------------------------------------------------------------- the methods

\* An increment by one in place of the addition of the value.
FetchAddOne(cell, v) == cell + 1

\* AtomicI64::fetch_add(value): the cell afterwards.
FetchAdd(cell, v) == cell + v

\* A load and a store in place of the fetch_add: two steps, the first keeping
\* the loaded count in `seen`.
MarkAddLoadStore(t) ==
    /\ th[t].pc = "add"
    /\ IF th[t].cas # "loaded"
       THEN /\ count' = count
            /\ Goto(t, [th[t] EXCEPT !.seen = count, !.cas = "loaded"], "add",
                    Unit("mark"))
       ELSE /\ count' = th[t].seen + th[t].value
            /\ Goto(t, th[t], "update", Unit("mark"))
    /\ UNCHANGED <<clock, birthstamp, prev, rates, history, script>>

\* self.count.fetch_add(value, Ordering::SeqCst);
MarkAdd(t) ==
    /\ th[t].pc = "add"
    /\ count' = FetchAdd(count, th[t].value)
    /\ Goto(t, th[t], Flow("mark", "add"), Unit("mark"))
    /\ UNCHANGED <<clock, birthstamp, prev, rates, history, script>>

\* The loop over the rates ending one early: the last EWMA gets no update.
MarkUpdateSkipLast(t) ==
    /\ th[t].pc = "update"
    /\ rates' = [rates EXCEPT ![th[t].rate_j] = EWMA_update(@, th[t].value)]
    /\ updated' = [updated EXCEPT ![th[t].rate_j] = @ + th[t].value]
    /\ IF th[t].rate_j < 2
       THEN Goto(t, [th[t] EXCEPT !.rate_j = @ + 1], "update", Unit("mark"))
       ELSE Goto(t, [th[t] EXCEPT !.rate_j = 1], Flow("mark", "update"),
                 Unit("mark"))
    /\ UNCHANGED <<clock, birthstamp, prev, count, nticks, ncalls, nmarks, marked,
                   expected, wins, script>>

\* for rate in &self.rates { rate.update(value); }: one update()
MarkUpdate(t) ==
    /\ th[t].pc = "update"
    /\ rates' = [rates EXCEPT ![th[t].rate_j] = EWMA_update(@, th[t].value)]
    /\ updated' = [updated EXCEPT ![th[t].rate_j] = @ + th[t].value]
    /\ IF th[t].rate_j < 3
       THEN Goto(t, [th[t] EXCEPT !.rate_j = @ + 1], "update", Unit("mark"))
       ELSE Goto(t, [th[t] EXCEPT !.rate_j = 1], Flow("mark", "update"),
                 Unit("mark"))
    /\ UNCHANGED <<clock, birthstamp, prev, count, nticks, ncalls, nmarks, marked,
                   expected, wins, script>>

\* The EWMA a rate getter reads: self.rates[0], [1], [2].
RateIndex(o) == CASE o = "m01rate" -> 1 [] o = "m05rate" -> 2 [] o = "m15rate" -> 3

\* self.rates[k].rate()
RateRead(t) ==
    /\ th[t].pc = "rate"
    /\ Goto(t, th[t], Flow(th[t].op, "rate"),
            [op |-> th[t].op, cls |-> "finite",
             val |-> EWMA_rate(rates[RateIndex(th[t].op)])])
    /\ UNCHANGED <<clock, meter, history, script>>

\* count(): self.count.load(Ordering::SeqCst)
CountLoad(t) ==
    /\ th[t].pc = "count"
    /\ Goto(t, th[t], Flow("count", "count"),
            [op |-> "count", cls |-> "finite", val |-> count])
    /\ UNCHANGED <<clock, meter, history, script>>

\* mean_rate reading the clock before it looks at count.
MeanLoadClockFirst(t) ==
    /\ th[t].pc = "mr_load"
    /\ clock' = Clock_read(clock)
    /\ IF count = 0
       THEN /\ Goto(t, th[t], "idle", [op |-> "mean_rate", cls |-> "finite", val |-> 0])
            /\ expected' = expected
       ELSE /\ LET q == F64Div(count, Clock_now(clock) - birthstamp)
               IN  Goto(t, th[t], "idle",
                        [op |-> "mean_rate", cls |-> q.cls, val |-> q.val])
            /\ expected' = expected + 1
    /\ UNCHANGED <<meter, nticks, updated, ncalls, nmarks, marked, wins, script>>

\* mean_rate(): let count = self.count.load(); if count == 0 { return 0.0; }
MeanLoad(t) ==
    /\ th[t].pc = "mr_load"
    /\ IF count = 0
       THEN /\ Goto(t, th[t], "idle", [op |-> "mean_rate", cls |-> "finite", val |-> 0])
            /\ expected' = expected
       ELSE /\ Goto(t, [th[t] EXCEPT !.seen = count], Flow("mean_rate", "mr_load"),
                    Unit("mean_rate"))
            /\ expected' = expected + 1
    /\ UNCHANGED <<clock, meter, nticks, updated, ncalls, nmarks, marked, wins,
                   script>>

\* mean_rate(): let elapsed = self.clock.now() - self.birthstamp;
\* count as f64 / elapsed as f64
MeanNow(t) ==
    /\ th[t].pc = "mr_now"
    /\ clock' = Clock_read(clock)
    /\ LET elapsed == Clock_now(clock) - birthstamp
           q == F64Div(th[t].seen, elapsed)
       IN  Goto(t, [th[t] EXCEPT !.now = Clock_now(clock)], Flow("mean_rate", "mr_now"),
                [op |-> "mean_rate", cls |-> q.cls, val |-> q.val])
    /\ UNCHANGED <<meter, history, script>>

\* One step of thread t inside a call.
ThreadStep(t) ==
    \/ TmNow(t)
    \/ TmLoad(t)
    \/ TmCas(t)
    \/ TmTick(t)
    \/ MarkAdd(t)
    \/ MarkUpdate(t)
    \/ RateRead(t)
    \/ CountLoad(t)
    \/ MeanLoad(t)
    \/ MeanNow(t)

\* --------------------------------------------------------- specifications

\* Threads calling the methods of one meter concurrently, on the system clock.
Next ==
    \/ ClockAdvance
    \/ \E t \in Threads : Call(t)
    \/ \E t \in Threads : ThreadStep(t)

Spec == Init /\ [][Next]_vars

\* One thread calling the methods of a meter one after the other.
SeqCall ==
    /\ script = <<>>
    /\ ncalls < MaxSeqCalls
    /\ \E o \in Ops : \E v \in (IF o = "mark" THEN MarkValues ELSE {0}) :
          Invoke(1, o, v)
    /\ UNCHANGED script

SeqClockAdvance == Advance(SeqClockSteps, MaxSeqElapsed)

NextSeq ==
    \/ SeqClockAdvance
    \/ SeqCall
    \/ ThreadStep(1)

SpecSeq == Init /\ [][NextSeq]_vars

\* test::non_zero, for any two marked values: a meter on the MockClock, two
\* marks, then count, mean_rate and the three rates.
NonZeroScript(a, b) ==
    << [op |-> "mark", value |-> a], [op |-> "mark", value |-> b],
       [op |-> "count", value |-> 0], [op |-> "mean_rate", value |-> 0],
       [op |-> "m01rate", value |-> 0], [op |-> "m05rate", value |-> 0],
       [op |-> "m15rate", value |-> 0] >>

InitNonZero ==
    /\ With([kind |-> "mock", time |-> 0, counter |-> 0])
    /\ \E a \in TestValues : \E b \in TestValues : script = NonZeroScript(a, b)

\* The test makes its next call.
TestStep ==
    /\ ncalls < Len(script)
    /\ Invoke(1, script[ncalls + 1].op, script[ncalls + 1].value)
    /\ UNCHANGED script

NextNonZero ==
    \/ TestStep
    \/ ThreadStep(1)

SpecNonZero == InitNonZero /\ [][NextNonZero]_vars

\* impl Metric for StdMeter: export_metric is unimplemented!(), which panics
\* in the calling thread: the call never returns and the thread unwinds.
ExportMetric(t) ==
    /\ th[t].pc = "idle"
    /\ ncalls < MaxCalls
    /\ th' = [th EXCEPT ![t] = [Idle EXCEPT !.pc = "panicked",
                                            !.op = "export_metric"]]
    /\ ret' = [op |-> "export_metric", cls |-> "panic", val |-> 0]
    /\ ncalls' = ncalls + 1
    /\ UNCHANGED <<clock, meter, nticks, updated, nmarks, marked, expected, wins,
                   round, script>>

ExportClockAdvance == Advance(ClockSteps, MaxExportElapsed)

\* Threads calling the methods of the meter, export_metric among them.
NextExport ==
    \/ ExportClockAdvance
    \/ \E t \in Threads : Call(t)
    \/ \E t \in Threads : ExportMetric(t)
    \/ \E t \in Threads : ThreadStep(t)

SpecExport == Init /\ [][NextExport]_vars

\* A clock that is not monotonic: its next reading is any of a few values
\* around the meter's birth, lower ones included.
ClockJump ==
    /\ clock.kind = "system"
    /\ \E d \in JumpOffsets :
          /\ birthstamp + d # clock.time
          /\ clock' = [clock EXCEPT !.time = birthstamp + d]
    /\ round' = [p |-> prev, quiet |-> AllIdle, ticks0 |-> nticks, served |-> FALSE,
                 lost |-> 0]
    /\ UNCHANGED <<meter, th, ret, history, script>>

\* A thread calls a rate getter.
GetterCall(t) ==
    /\ ncalls < MaxJumpCalls
    /\ \A u \in Threads : u < t => th[u].pc # "idle"
    /\ \E o \in Getters : Invoke(t, o, 0)
    /\ UNCHANGED script

\* The steps of a rate getter: tick_maybe, then the read of the rate.
GetterStep(t) ==
    \/ TmNow(t)
    \/ TmLoad(t)
    \/ TmCas(t)
    \/ TmTick(t)
    \/ RateRead(t)

\* Threads calling the rate getters under a clock that may go back.
NextJump ==
    \/ ClockJump
    \/ \E t \in Threads : GetterCall(t)
    \/ \E t \in Threads : GetterStep(t)

SpecJump == Init /\ [][NextJump]_vars

\* ------------------------------------------------------------------ claims

\* C1: when rate getters are called, by any number of threads at once, at one
\* clock reading `now` with now - prev > 5 (no call was under way when the
\* clock reached `now`), then once all have returned each EWMA has been ticked
\* exactly (now - prev) / 5 times by them together.
C1_CatchUpOnce ==
    (AllIdle /\ round.quiet /\ round.served /\ Owed(clock.time - round.p))
        => \A k \in Idx :
              nticks[k] = round.ticks0[k] + (clock.time - round.p) \div TickInterval

\* Two getters raced at one clock reading with two ticks owed: one lost the
\* compare-and-swap, and both have returned.
C1_Witness ==
    /\ AllIdle /\ round.quiet /\ round.served
    /\ clock.time - round.p = 11
    /\ round.lost = 1
    /\ ncalls = 2 /\ nmarks = 0
    /\ nticks[3] = 2

\* C2: of the callers of tick_maybe that loaded the same value of prev and saw
\* elapsed > 5, exactly one succeeds in the compare-and-swap, and it makes
\* elapsed / 5 ticks; the compare-and-swap of every other fails, and that
\* caller makes no tick in that call.
C2_OneWinner ==
    /\ \A a, b \in 1..Len(wins) : a # b => wins[a].old # wins[b].old
    /\ \A t \in Threads :
          /\ th[t].cas \in {"won", "lost"} => Owed(th[t].now - th[t].old)
          /\ th[t].cas = "lost" =>
                /\ th[t].tick_i = 0 /\ th[t].pc # "tick"
                /\ \E a \in 1..Len(wins) : wins[a].old = th[t].old
          /\ th[t].cas = "won" =>
                /\ \E a \in 1..Len(wins) : wins[a].old = th[t].old
                /\ th[t].pc # "tick" => th[t].tick_i = Ticks(th[t].now - th[t].old)

\* Two callers loaded the same prev; one has won and ticked, the other lost.
C2_Witness ==
    \E t, u \in Threads :
        /\ th[t].cas = "won" /\ th[t].pc # "tick" /\ th[t].tick_i = 2
        /\ th[u].cas = "lost"
        /\ th[t].old = th[u].old

\* The value of a mark call, its locals l, that is not yet added to count.
AddPending(l) ==
    IF l.op = "mark" /\ l.pc \in {"now", "load", "cas", "tick", "add"}
    THEN l.value ELSE 0

\* The sum of these over the threads of S, their locals ls.
RECURSIVE SumPending(_, _)
SumPending(S, ls) ==
    IF S = {} THEN 0
    ELSE LET t == CHOOSE x \in S : TRUE
         IN  AddPending(ls[t]) + SumPending(S \ {t}, ls)

\* C3: count is at every moment the sum of the values of the marks whose
\* fetch_add has taken place, each counted once (the fetch_adds, in the order
\* they happen, are the total order); so count() returns the sum of a prefix of
\* that order, and once every mark has returned count is the sum of them all.
C3_CountLinearizable ==
    /\ [](count = marked - SumPending(Threads, th))
    /\ [](AllIdle => count = marked)
    /\ [][\A t \in Threads :
            (th[t].pc = "count" /\ th'[t].pc = "idle")
                => (ret'.op = "count"
                    /\ ret'.val = marked' - SumPending(Threads, th'))]_vars

\* Two marks were made at once and both have returned.
C3_Witness ==
    /\ AllIdle /\ nmarks = 2 /\ round.lost = 1 /\ count = 1

\* C4: while the clock still reads the meter's birth timestamp, no tick is
\* made, every rate is 0 and every rate getter returns 0, and once the marks
\* made have returned count is the exact sum of their values, which is what
\* count() returns; a meter not yet marked has count 0 and mean rate 0.
C4_NoElapsedTime ==
    clock.time = birthstamp =>
        /\ \A k \in Idx : nticks[k] = 0 /\ EWMA_rate(rates[k]) = 0
        /\ ret.op \in Getters => ret.cls = "finite" /\ ret.val = 0
        /\ AllIdle => count = marked
        /\ (AllIdle /\ ret.op = "count") => ret.val = marked
        /\ nmarks = 0 =>
              /\ count = 0
              /\ ret.op \in {"count", "mean_rate"} => ret.cls = "finite" /\ ret.val = 0

\* No time has elapsed; a mark has been made and returned, and then a rate
\* getter has returned.
C4_Witness ==
    /\ clock.time = birthstamp
    /\ AllIdle /\ nmarks = 1 /\ ncalls = 2
    /\ count = 2 /\ marked = 2
    /\ ret.op = "m05rate"

\* C5 (as claimed): no step of any call, mark with a negative value included,
\* leaves count smaller than it was.
C5_CountNeverDecreases == [][count' >= count]_vars

\* C6 (as claimed): mean_rate returns 0, and no infinity, when no time has
\* elapsed since the meter's birth, whatever count is.
C6_MeanRateZeroAtBirth ==
    (clock.time = birthstamp /\ ret.op = "mean_rate")
        => (ret.cls = "finite" /\ ret.val = 0)

\* The locals of the one thread of a single-threaded run.
Me == th[1]

\* C7: in a single-threaded run, a tick_maybe call that sees elapsed > 5
\* makes exactly elapsed / 5 ticks on each EWMA and leaves prev at
\* now - (elapsed mod 5); prev - birthstamp stays a multiple of 5 that counts
\* the ticks made, so that after the call the ticks made since the meter's
\* birth are (now - birthstamp) / 5, rounded down.
C7_CatchUpExact ==
    /\ Me.pc # "tick" =>
          /\ (prev - birthstamp) % TickInterval = 0
          /\ \A k \in Idx : nticks[k] = (prev - birthstamp) \div TickInterval
    /\ (Me.cas = "won" /\ Me.pc # "tick") =>
          /\ prev = Me.now - ((Me.now - Me.old) % TickInterval)
          /\ Me.tick_i = (Me.now - Me.old) \div TickInterval
          /\ \A k \in Idx :
                /\ nticks[k] = (Me.old - birthstamp) \div TickInterval
                                 + (Me.now - Me.old) \div TickInterval
                /\ nticks[k] = (Me.now - birthstamp) \div TickInterval

\* A second catch-up has just ended: the first left a remainder of a second,
\* and this one saw 12 seconds elapsed since the tick before.
C7_Witness ==
    /\ Me.cas = "won" /\ Me.pc \in {"add", "rate"}
    /\ Me.old = birthstamp + 5
    /\ Me.now = birthstamp + 17
    /\ prev = birthstamp + 15
    /\ nticks[1] = 3

\* C8: mark(value) runs tick_maybe first, then adds value to count, then
\* passes value to update on each EWMA: while the call is in tick_maybe
\* neither count nor any EWMA has received the value, and when the ticks of its
\* catch-up are made the value is in no EWMA's uncounted events; it enters
\* them only afterwards, for the next tick.
C8_MarkOrder ==
    Me.op = "mark" =>
        /\ Me.pc \in {"now", "load", "cas", "tick", "add"} =>
              /\ count = marked - Me.value
              /\ \A k \in Idx : updated[k] = marked - Me.value
        /\ (Me.pc = "add" /\ Me.cas = "won") =>
              /\ Me.tick_i = Ticks(Me.now - Me.old)
              /\ \A k \in Idx : rates[k].uncounted = 0
        /\ Me.pc = "update" =>
              /\ count = marked
              /\ \A k \in Idx :
                    /\ updated[k] = IF k < Me.rate_j THEN marked
                                    ELSE marked - Me.value
                    /\ Me.cas = "won" =>
                          rates[k].uncounted = IF k < Me.rate_j THEN Me.value ELSE 0

\* A mark whose catch-up ticked, folding an earlier mark, is at its last
\* update.
C8_Witness ==
    /\ Me.op = "mark" /\ Me.pc = "update" /\ Me.rate_j = 3
    /\ Me.cas = "won" /\ Me.tick_i = 2
    /\ nmarks = 2 /\ Me.value = 2 /\ marked = 4
    /\ rates[1].rate > 0 /\ rates[1].uncounted = 2

\* |x - y| <= d
Near(x, y, d) == x - y <= d /\ y - x <= d

\* C9: test::non_zero with marks of 1 and 2.  The first mark makes no tick;
\* the second sees 10 seconds elapsed and makes 2 ticks on each EWMA, the
\* first setting the rate to the 1 event of the first mark over 5 seconds
\* (0.2), the second decaying it; no later call makes a tick.  count() is 3,
\* mean_rate() 0.3, and the rates are 0.1840, 0.1966 and 0.1988 (within
\* 0.001); the clock has then been read 7 times.
C9_NonZero ==
    script = NonZeroScript(1, 2) =>
        /\ ncalls < 2 => \A k \in Idx : nticks[k] = 0
        /\ (ncalls = 2 /\ Me.pc \in {"add", "update"}) =>
              /\ Me.cas = "won" /\ Me.tick_i = 2
              /\ Me.now = 10 /\ Me.old = 0 /\ prev = 10
        /\ (ncalls > 2 \/ (ncalls = 2 /\ Me.pc \in {"add", "update", "idle"})) =>
              \A k \in Idx : nticks[k] = 2
        /\ \A k \in Idx :
              /\ nticks[k] = 1 => rates[k].init /\ rates[k].rate = 2 * 10^3
              /\ nticks[k] = 2 => rates[k].rate < 2 * 10^3
        /\ ret.op = "count" => ret.val = 3
        /\ ret.op = "mean_rate" => ret.cls = "finite" /\ ret.val = 3 * 10^3
        /\ ret.op = "m01rate" => Near(ret.val, 1840, 10)
        /\ ret.op = "m05rate" => Near(ret.val, 1966, 10)
        /\ ret.op = "m15rate" => Near(ret.val, 1988, 10)
        /\ ret.op \in Getters => Me.cas # "won"
        /\ (ncalls = 7 /\ AllIdle) => clock.counter = 7

\* The test has run to its end.
C9_Witness ==
    /\ script = NonZeroScript(1, 2)
    /\ ncalls = 7 /\ AllIdle
    /\ ret.op = "m15rate"
    /\ nticks[3] = 2

\* The threads that are about to read the clock.
AtClockRead == {t \in Threads : th[t].pc \in {"now", "mr_now"}}

\* C10: the meter's construction reads the clock once, and so does each call
\* of mark and of a rate getter, and each call of mean_rate that finds count
\* other than zero; count() and a mean_rate that finds count zero do not.  So
\* with no call under way the clock has been read once more than there were
\* such calls, whether they ticked or not.
C10_ClockReads ==
    /\ clock.counter = 1 + expected - Cardinality(AtClockRead)
    /\ AllIdle => clock.counter = 1 + expected

\* Two calls that read the clock have returned, one of which made ticks:
\* three reads of the clock with that of the construction.
C10_Witness ==
    /\ AllIdle
    /\ ncalls = 2 /\ expected = 2
    /\ clock.counter = 3
    /\ nticks[3] = 2

\* ------------------------------------------------------------------ C11
\* C11: with a clock that never goes back, prev never goes back and never
\* returns to a value it held before: every successful compare-and-swap stores
\* a value strictly greater than the one it replaces, the values stored grow
\* strictly from one success to the next, each success replaces the value the
\* one before stored (the first replaces the birthstamp), and prev is the last
\* value stored.
C11_NoABA ==
    /\ \A a \in 1..Len(wins) :
          /\ wins[a].new > wins[a].old
          /\ wins[a].old = IF a = 1 THEN birthstamp ELSE wins[a - 1].new
          /\ \A b \in 1..Len(wins) : a < b => wins[a].new < wins[b].new
    /\ prev = IF wins = <<>> THEN birthstamp ELSE wins[Len(wins)].new

\* Two catch-ups have succeeded one after the other while a third thread of
\* control still holds the first value of prev it loaded.
C11_Witness ==
    /\ Len(wins) = 2
    /\ \E t \in Threads : th[t].pc = "tick" /\ th[t].cas = "won"
                          /\ th[t].old = birthstamp /\ prev > th[t].old + TickInterval

\* ------------------------------------------------------------------ C12
\* The steps one call makes at most when its catch-up owes `ticks` ticks: the
\* clock read, the load, the compare-and-swap, three tick() calls per tick,
\* the fetch_add and three update() calls.
StepBound(ticks) == 3 * ticks + 7

\* C12: mark and the rate getters never block and always terminate: a call in
\* progress can always take its next step whatever the other threads do, it
\* makes at most one compare-and-swap, and the steps it has made are bounded
\* by three per tick of its own catch-up (elapsed / 5 ticks) plus a constant.
C12_WaitFree ==
    \A t \in Threads :
        /\ th[t].ncas <= 1
        /\ th[t].steps <= StepBound(IF th[t].cas = "won"
                                    THEN (th[t].now - th[t].old) \div TickInterval
                                    ELSE 0)
        /\ th[t].pc # "idle" => ENABLED ThreadStep(t)

\* A mark that lost the compare-and-swap to a thread that is still replaying
\* its ticks goes on to its last update() without waiting.
C12_Witness ==
    \E t, u \in Threads :
        /\ th[t].op = "mark" /\ th[t].cas = "lost" /\ th[t].ncas = 1
        /\ th[t].pc = "update" /\ th[t].rate_j = 3 /\ th[t].steps = 6
        /\ th[u].pc = "tick" /\ th[u].cas = "won"

\* ------------------------------------------------------------------ C13
\* C13: export_metric, called at any time and while marks are under way,
\* returns a snapshot (count, the three rates, the mean rate) and never ends in
\* a failure or an abort.
C13_ExportReturns ==
    /\ ret.op = "export_metric" => ret.cls = "snapshot"
    /\ \A t \in Threads : th[t].pc # "panicked"

\* ------------------------------------------------------------------ C14
\* C14 as stated: whenever a rate getter that read the clock value `now` and
\* loaded a prev with now - prev > 5 reads its rate, all the ticks due at `now`
\* have been made on the EWMA it reads: those due up to the prev it loaded
\* and the elapsed / 5 of this catch-up, also when the call lost the
\* compare-and-swap.
C14_TicksBeforeRate ==
    \A t \in Threads :
        (th[t].op \in Getters /\ th[t].pc = "rate" /\ Owed(th[t].now - th[t].old))
            => nticks[RateIndex(th[t].op)]
                  >= (th[t].old - birthstamp) \div TickInterval
                       + (th[t].now - th[t].old) \div TickInterval

\* C14, amended: a rate getter reads its rate only after its tick_maybe has
\* run, and a getter that won the compare-and-swap has by then made all
\* elapsed / 5 ticks of its catch-up on every EWMA; a getter that lost the
\* compare-and-swap has made none and reads without waiting for the winner.
C14_OwnTicksBeforeRate ==
    \A t \in Threads :
        (th[t].op \in Getters /\ th[t].pc = "rate")
            => /\ th[t].cas \in {"skipped", "won", "lost"}
               /\ th[t].cas = "won"
                    => /\ th[t].tick_i = (th[t].now - th[t].old) \div TickInterval
                       /\ \A k \in Idx : nticks[k] >= th[t].tick_i
               /\ th[t].cas = "lost" => th[t].tick_i = 0

\* A getter that won with two ticks owed is about to read its rate, and a
\* getter that lost to it is about to read its own.
C14_Witness ==
    \E t, u \in Threads :
        /\ th[t].op \in Getters /\ th[t].pc = "rate" /\ th[t].cas = "won"
        /\ th[t].tick_i = 2
        /\ th[u].op \in Getters /\ th[u].pc = "rate" /\ th[u].cas = "lost"

\* ------------------------------------------------------------------ C15
\* The ticks that EWMA k is behind floor((now - birth) / 5) at the clock
\* reading `now` of the call under way.
Lag(k) == (Me.now - birthstamp) \div TickInterval - nticks[k]

\* C15: the threshold is strict.  In single-threaded execution a tick_maybe
\* that sees elapsed <= 5 makes no compare-and-swap and no tick and leaves prev
\* as it was, and only an elapsed > 5 makes a catch-up; when tick_maybe has
\* returned, 0 <= now - prev <= 5 and each EWMA is behind
\* floor((now - birth) / 5) by one tick at most, and by one only when
\* now - prev = 5.
C15_StrictThreshold ==
    /\ (Me.pc \in {"add", "rate"} /\ Me.cas = "skipped")
          => /\ Me.now - Me.old <= 5
             /\ Me.ncas = 0 /\ Me.tick_i = 0
             /\ prev = Me.old
             /\ \A k \in Idx : nticks[k] = (Me.old - birthstamp) \div TickInterval
    /\ Me.cas \in {"won", "lost"} => Me.now - Me.old > 5
    /\ Me.pc \in {"add", "rate"}
          => /\ 0 <= Me.now - prev /\ Me.now - prev <= 5
             /\ \A k \in Idx : /\ Lag(k) \in {0, 1}
                                /\ Lag(k) = 1 <=> Me.now - prev = 5

\* After an earlier catch-up, a getter finds exactly 5 seconds elapsed: it makes
\* no tick and is one tick behind.
C15_Witness ==
    /\ Me.pc = "rate" /\ Me.cas = "skipped"
    /\ Me.now - prev = 5 /\ prev > birthstamp
    /\ Lag(1) = 1 /\ nticks[1] = 1

\* ------------------------------------------------------------------ C16
\* Thread t is inside tick_maybe.
InTickMaybe(t) == th[t].pc \in {"now", "load", "cas", "tick"}

\* C16: under any interleaving with a clock that never goes back, prev - birth
\* is always a non-negative multiple of 5; prev is never greater than the
\* largest clock value read so far (it starts as the reading taken at
\* construction, and every store to it is a successful compare-and-swap storing
\* no more than the clock value its caller read); the ticks made on each EWMA
\* are at most (prev - birth) / 5, and exactly that many whenever no thread is
\* inside tick_maybe.
C16_TickInvariant ==
    /\ [](/\ prev - birthstamp >= 0
          /\ (prev - birthstamp) % 5 = 0
          /\ prev <= clock.time
          /\ \A k \in Idx : nticks[k] <= (prev - birthstamp) \div 5
          /\ (\A t \in Threads : ~InTickMaybe(t))
                => \A k \in Idx : nticks[k] = (prev - birthstamp) \div 5)
    /\ [][prev' # prev => \E t \in Threads : /\ th[t].pc = "cas"
                                             /\ th'[t].cas = "won"
                                             /\ prev < prev'
                                             /\ prev' <= th[t].now]_vars

\* Two intervals have been accounted for in prev while the winner has made
\* one tick on the first two EWMAs only, and the other thread is in mark past
\* its tick_maybe.
C16_Witness ==
    /\ prev - birthstamp = 10
    /\ nticks = <<1, 1, 0>>
    /\ \E t, u \in Threads : /\ th[t].pc = "tick" /\ th[t].rate_j = 3
                             /\ th[u].pc = "update" /\ th[u].cas = "lost"

\* ------------------------------------------------------------------ C17
\* C17: operations leave the state they do not own unchanged.  No step of
\* count() or mean_rate() changes count, prev or any EWMA, nor the ticks and
\* updates made; no step of a rate getter and no step of tick_maybe (in mark as
\* well) changes count; and the steps of a tick_maybe that sees elapsed <= 5
\* or loses the compare-and-swap (its clock read, its load, its failed
\* compare-and-swap) change nothing of prev, count and the EWMAs.
C17_Frame ==
    [][\A t \in Threads :
          th'[t] # th[t]
            => /\ th[t].op \in {"count", "mean_rate"}
                    => UNCHANGED <<count, prev, rates, nticks, updated>>
               /\ (th[t].op \in Getters \/ InTickMaybe(t)) => count' = count
               /\ (InTickMaybe(t) /\ th'[t].cas \in {"none", "skipped", "lost"})
                    => UNCHANGED <<count, prev, rates, nticks, updated>>
               /\ (th[t].op \in Getters /\ th[t].cas \in {"skipped", "lost"})
                    => UNCHANGED <<count, prev, rates, nticks, updated>>]_vars

\* A getter has lost the compare-and-swap and is about to read its rate, after
\* a mark changed count and the other thread's catch-up changed prev.
C17_Witness ==
    /\ count # 0 /\ prev # birthstamp
    /\ \E t \in Threads : /\ th[t].op \in Getters /\ th[t].pc = "rate"
                          /\ th[t].cas = "lost"

\* ------------------------------------------------------------------ C18
\* C18: the three EWMAs stay in step with each other and with count.  Whenever
\* no thread is inside mark or tick_maybe, the three EWMAs have received the
\* same number of ticks, and the values passed to update on each EWMA since
\* creation sum to count, which is the sum of the values marked: every marked
\* value went exactly once into each of the three.
C18_InStep ==
    (\A t \in Threads : th[t].op # "mark" /\ ~InTickMaybe(t))
        => /\ nticks[1] = nticks[2] /\ nticks[2] = nticks[3]
           /\ \A k \in Idx : updated[k] = count /\ updated[k] = marked

\* Two marks raced with two ticks owed, one losing the compare-and-swap; both
\* have returned.
C18_Witness ==
    /\ nmarks = 2 /\ round.lost = 1
    /\ nticks = <<2, 2, 2>> /\ updated[3] # 0
    /\ AllIdle

\* ------------------------------------------------------------------ C19
\* C19 as stated: in no reachable state are two threads inside the tick loop
\* of tick_maybe at once.
C19_OneTicker == Cardinality({t \in Threads : th[t].pc = "tick"}) <= 1

\* C19, amended: at most one thread performs the catch-up of any one interval.
\* Threads inside the tick loop at once have won the compare-and-swap from
\* different values of prev, and the stretches of time they replay do not
\* overlap: the one that started from the lower value replays up to a value
\* no greater than the one the other started from.  (Two threads can be in
\* the loop at once, when the clock advances by more than 5 seconds while an
\* earlier winner is still replaying.)
C19_OneTickerPerInterval ==
    \A t, u \in Threads :
        (t # u /\ th[t].pc = "tick" /\ th[u].pc = "tick" /\ th[t].old <= th[u].old)
            => /\ th[t].cas = "won" /\ th[u].cas = "won"
               /\ th[t].old < th[u].old
               /\ th[t].now - ((th[t].now - th[t].old) % 5) <= th[u].old

\* A winner is still replaying the first interval when the clock has advanced
\* and a second winner replays the next one.
C19_Witness ==
    \E t, u \in Threads :
        /\ th[t].pc = "tick" /\ th[t].old = birthstamp
        /\ th[u].pc = "tick" /\ th[u].old = birthstamp + 5
        /\ nticks[1] = 0

\* ------------------------------------------------------------------ C20
\* C20: a clock reading lower than prev is harmless, whether the clock went
\* back or the reading is stale.  A tick_maybe whose reading is below the prev
\* it loads computes a negative elapsed and makes no compare-and-swap and no
\* tick: its load leaves prev and the EWMAs alone and the call goes straight
\* on to the rest of its method; and no step ever lowers prev, whatever
\* readings the clock gives.
C20_BackwardClockHarmless ==
    /\ [](\A t \in Threads :
            (th[t].pc \in {"cas", "tick", "rate"} /\ th[t].now < th[t].old)
                => /\ th[t].pc = "rate" /\ th[t].cas = "skipped"
                   /\ th[t].ncas = 0 /\ th[t].tick_i = 0)
    /\ [][/\ prev' >= prev
          /\ \A t \in Threads :
                (th[t].pc = "load" /\ th'[t] # th[t] /\ th[t].now < prev)
                    => UNCHANGED <<prev, count, rates, nticks>>]_vars

\* After a catch-up of two ticks the clock went back to before the meter's
\* birth: a getter has read it, found a negative elapsed and is about to read
\* its rate.
C20_Witness ==
    \E t \in Threads :
        /\ th[t].pc = "rate" /\ th[t].cas = "skipped"
        /\ th[t].now < birthstamp /\ th[t].old = birthstamp + 10
        /\ prev = th[t].old /\ nticks = <<2, 2, 2>>

====
